---- MODULE Spec2Model ----
(***************************************************************************)
(* Model of angr/engines/light/engine.py: the light-weight statement and   *)
(* expression walkers SimEngineLightVEX (dialect A) and SimEngineLightAIL  *)
(* (dialect B) on top of the shared SimEngineLight instance fields.        *)
(*                                                                         *)
(* Python values are tagged records: None is [tag |-> "None"], an int n is *)
(* [tag |-> "int", value |-> n], an IR node is a record whose tag is the   *)
(* name of its Python type (type(x).__name__), which is what the           *)
(* reflective dispatch of the engine looks at.                             *)
(***************************************************************************)
EXTENDS Integers, Sequences, FiniteSets, TLC

VARIABLES
    engine_type,  \* SimEngineLight.engine_type: "vex" or "ail"
    state,        \* self.state
    arch,         \* self.arch
    block,        \* self.block
    stmt_idx,     \* self.stmt_idx
    ins_addr,     \* self.ins_addr
    tmps,         \* self.tmps
    tyenv,        \* self.tyenv (SimEngineLightVEX only)
    pc,           \* position of the caller: "idle" or inside process() ("running")
    next,         \* position of enumerate() in _process_Stmt
    outcome,      \* how the most recent finished process() call ended
    log,          \* warnings emitted on the logger l during the current call
    prev,         \* history, while a call runs: the temp table and outcome the
                  \* previous call left behind
    evalRes       \* history: the _expr() call made during the current or the
                  \* last call of process(), and what it gave

vars == <<engine_type, state, arch, block, stmt_idx, ins_addr, tmps, tyenv,
          pc, next, outcome, log, prev, evalRes>>

----------------------------------------------------------------------------
(* Bounds of the model *)

\* longest block (number of statements) the engine is run on
MaxStmts == 3

\* temp ids are 0..MaxTmp
MaxTmp == 1

\* longest block of MarkSpec
MaxMarkStmts == 4

----------------------------------------------------------------------------
(* Python values *)

None == [tag |-> "None"]

IntVal(n) == [tag |-> "int", value |-> n]

\* a literal that is not a number: arithmetic with it raises TypeError
Opaque == [tag |-> "object"]

Tmps == 0..MaxTmp

\* a Python dict: its items are <<key, value>> pairs with unique keys
Dict(items) == [tag |-> "dict", items |-> items]

EmptyDict == Dict({})

DictKeys(d) == {kv[1] : kv \in d.items}

DictGet(d, k) == (CHOOSE kv \in d.items : kv[1] = k)[2]

DictSet(d, k, v) == Dict({kv \in d.items : kv[1] # k} \cup {<<k, v>>})

\* str.startswith
StartsWith(s, p) == Len(s) >= Len(p) /\ SubSeq(s, 1, Len(p)) = p

\* what an evaluation step gives: a returned value or a raised exception,
\* together with the warnings it logged on the way
Returned(v, warnings) == [st |-> "return", val |-> v, exc |-> "", log |-> warnings]

Raised(e, warnings) == [st |-> "raise", val |-> None, exc |-> e, log |-> warnings]

Warning(kind, name) == [kind |-> kind, name |-> name]

\* Python's binary + and - on the values of the model: defined on two ints,
\* TypeError otherwise (IR nodes and opaque objects implement neither)
PyAdd(a, b) ==
    IF a.tag = "int" /\ b.tag = "int"
    THEN Returned(IntVal(a.value + b.value), <<>>)
    ELSE Raised("TypeError", <<>>)

PySub(a, b) ==
    IF a.tag = "int" /\ b.tag = "int"
    THEN Returned(IntVal(a.value - b.value), <<>>)
    ELSE Raised("TypeError", <<>>)

----------------------------------------------------------------------------
(* Dialect A: SimEngineLightVEX, expressions *)

\* the _handle_* methods SimEngineLightVEX defines (what hasattr/getattr find)
VEXAttrs ==
    {"_handle_Stmt", "_handle_WrTmp", "_handle_Put", "_handle_Store",
     "_handle_RdTmp", "_handle_Get", "_handle_Load", "_handle_UnaryOp",
     "_handle_Binop", "_handle_Add", "_handle_Sub", "_handle_Const"}

\* the operator-descriptor table imported from ..vex.irop (operations):
\* opcode -> descriptor, of which the engine reads _conversion
vex_operations ==
    [op \in {"Iop_Not32", "Iop_Clz32", "Iop_32Uto64", "Iop_64to32"} |->
        [_conversion |-> op \in {"Iop_32Uto64", "Iop_64to32"}]]

RECURSIVE VEX_expr(_, _)

VEX_handle_RdTmp(t, expr) ==
    IF expr.tmp \in DictKeys(t)
    THEN Returned(DictGet(t, expr.tmp), <<>>)
    ELSE Returned(None, <<>>)

VEX_handle_Get(t, expr) == Raised("NotImplementedError", <<>>)

VEX_handle_Load(t, expr) == Raised("NotImplementedError", <<>>)

VEX_handle_UnaryOp(t, expr) ==
    IF expr.op \notin DOMAIN vex_operations
    THEN Raised("KeyError", <<>>)
    ELSE LET simop == vex_operations[expr.op]
             handler_name == IF simop._conversion
                             THEN "_handle_Conversion"
                             ELSE "_handle_" \o expr.op
         IN  IF handler_name \notin VEXAttrs
             THEN Returned(None, <<Warning("Unsupported UnaryOp", expr.op)>>)
             \* no opcode-named handler exists in this class
             ELSE Raised("TypeError", <<>>)

VEX_handle_Const(t, arg) == Returned(arg.con.value, <<>>)

\* as _handle_Add, but a second operand that is unknown leaves the first
VEX_handle_Add_partial(t, arg0, arg1) ==
    LET r0 == VEX_expr(t, arg0) IN
    IF r0.st = "raise" THEN r0
    ELSE IF r0.val = None THEN Returned(None, r0.log)
    ELSE LET r1 == VEX_expr(t, arg1) IN
         IF r1.st = "raise" THEN Raised(r1.exc, r0.log \o r1.log)
         ELSE IF r1.val = None THEN Returned(r0.val, r0.log \o r1.log)
         ELSE LET sum == PyAdd(r0.val, r1.val) IN
              IF sum.st = "raise"
              THEN Returned(None, r0.log \o r1.log)
              ELSE Returned(sum.val, r0.log \o r1.log)

VEX_handle_Add(t, arg0, arg1) ==
    LET r0 == VEX_expr(t, arg0) IN
    IF r0.st = "raise" THEN r0
    ELSE IF r0.val = None THEN Returned(None, r0.log)
    ELSE LET r1 == VEX_expr(t, arg1) IN
         IF r1.st = "raise" THEN Raised(r1.exc, r0.log \o r1.log)
         ELSE IF r1.val = None THEN Returned(None, r0.log \o r1.log)
         ELSE LET sum == PyAdd(r0.val, r1.val) IN
              IF sum.st = "raise"
              THEN Returned(None, r0.log \o r1.log)
              ELSE Returned(sum.val, r0.log \o r1.log)

VEX_handle_Sub(t, arg0, arg1) ==
    LET r0 == VEX_expr(t, arg0) IN
    IF r0.st = "raise" THEN r0
    ELSE IF r0.val = None THEN Returned(None, r0.log)
    ELSE LET r1 == VEX_expr(t, arg1) IN
         IF r1.st = "raise" THEN Raised(r1.exc, r0.log \o r1.log)
         ELSE IF r1.val = None THEN Returned(None, r0.log \o r1.log)
         ELSE LET diff == PySub(r0.val, r1.val) IN
              IF diff.st = "raise"
              THEN Returned(None, r0.log \o r1.log)
              ELSE Returned(diff.val, r0.log \o r1.log)

VEX_handle_Binop(t, expr) ==
    IF StartsWith(expr.op, "Iop_Add")
    THEN VEX_handle_Add(t, expr.args[1], expr.args[2])
    ELSE IF StartsWith(expr.op, "Iop_Sub")
    THEN VEX_handle_Sub(t, expr.args[1], expr.args[2])
    ELSE IF StartsWith(expr.op, "Const")
    \* _handle_Const(*expr.args): one parameter, Len(expr.args) arguments
    THEN IF Len(expr.args) = 1
         THEN VEX_handle_Const(t, expr.args[1])
         ELSE Raised("TypeError", <<>>)
    ELSE Returned(None, <<>>)

VEX_expr(t, expr) ==
    LET handler == "_handle_" \o expr.tag IN
    IF handler \in VEXAttrs
    THEN CASE handler = "_handle_RdTmp" -> VEX_handle_RdTmp(t, expr)
           [] handler = "_handle_Get" -> VEX_handle_Get(t, expr)
           [] handler = "_handle_Load" -> VEX_handle_Load(t, expr)
           [] handler = "_handle_UnaryOp" -> VEX_handle_UnaryOp(t, expr)
           [] handler = "_handle_Binop" -> VEX_handle_Binop(t, expr)
           [] handler = "_handle_Const" -> VEX_handle_Const(t, expr)
    ELSE Returned(None, <<Warning("Unsupported expression type", expr.tag)>>)

----------------------------------------------------------------------------
(* Dialect B: SimEngineLightAIL, expressions *)

\* the _ail_handle_* methods SimEngineLightAIL defines
AILAttrs ==
    {"_ail_handle_Stmt", "_ail_handle_Jump", "_ail_handle_Call",
     "_ail_handle_Const", "_ail_handle_Tmp", "_ail_handle_Load",
     "_ail_handle_UnaryOp", "_ail_handle_BinaryOp", "_ail_handle_Add",
     "_ail_handle_Sub"}

\* ailment.Expr.BinaryOp(idx, op, operands, **tags)
BinaryOp(idx, op, operands, tags) ==
    [tag |-> "BinaryOp", idx |-> idx, op |-> op, operands |-> operands,
     tags |-> tags]

RECURSIVE AIL_expr(_, _)

AIL_handle_Const(t, expr) == Returned(expr.value, <<>>)

AIL_handle_Tmp(t, expr) ==
    IF expr.tmp_idx \in DictKeys(t)
    THEN Returned(DictGet(t, expr.tmp_idx), <<>>)
    ELSE Returned(None, <<>>)

AIL_handle_Load(t, expr) == Raised("NotImplementedError", <<>>)

\* as _ail_handle_Add, but giving up like dialect A when the sum fails
AIL_handle_Add_unknown(t, expr) ==
    LET arg0 == expr.operands[1]
        arg1 == expr.operands[2]
        r0 == AIL_expr(t, arg0)
    IN  IF r0.st = "raise" THEN r0
        ELSE LET r1 == AIL_expr(t, arg1) IN
             IF r1.st = "raise" THEN Raised(r1.exc, r0.log \o r1.log)
             ELSE LET expr_0 == IF r0.val = None THEN arg0 ELSE r0.val
                      expr_1 == IF r1.val = None THEN arg1 ELSE r1.val
                      sum == PyAdd(expr_0, expr_1)
                  IN  IF sum.st = "raise"
                      THEN Returned(None, r0.log \o r1.log)
                      ELSE Returned(sum.val, r0.log \o r1.log)

AIL_handle_Add(t, expr) ==
    LET arg0 == expr.operands[1]
        arg1 == expr.operands[2]
        r0 == AIL_expr(t, arg0)
    IN  IF r0.st = "raise" THEN r0
        ELSE LET r1 == AIL_expr(t, arg1) IN
             IF r1.st = "raise" THEN Raised(r1.exc, r0.log \o r1.log)
             ELSE LET expr_0 == IF r0.val = None THEN arg0 ELSE r0.val
                      expr_1 == IF r1.val = None THEN arg1 ELSE r1.val
                      sum == PyAdd(expr_0, expr_1)
                  IN  IF sum.st = "raise"
                      THEN Returned(BinaryOp(expr.idx, "Add", <<expr_0, expr_1>>,
                                             expr.tags),
                                    r0.log \o r1.log)
                      ELSE Returned(sum.val, r0.log \o r1.log)

AIL_handle_Sub(t, expr) ==
    LET arg0 == expr.operands[1]
        arg1 == expr.operands[2]
        r0 == AIL_expr(t, arg0)
    IN  IF r0.st = "raise" THEN r0
        ELSE LET r1 == AIL_expr(t, arg1) IN
             IF r1.st = "raise" THEN Raised(r1.exc, r0.log \o r1.log)
             ELSE LET expr_0 == IF r0.val = None THEN arg0 ELSE r0.val
                      expr_1 == IF r1.val = None THEN arg1 ELSE r1.val
                      diff == PySub(expr_0, expr_1)
                  IN  IF diff.st = "raise"
                      THEN Returned(BinaryOp(expr.idx, "Sub", <<expr_0, expr_1>>,
                                             expr.tags),
                                    r0.log \o r1.log)
                      ELSE Returned(diff.val, r0.log \o r1.log)

AIL_handle_UnaryOp(t, expr) ==
    LET handler_name == "_ail_handle_" \o expr.op IN
    IF handler_name \notin AILAttrs
    THEN Returned(None, <<Warning("Unsupported UnaryOp", expr.op)>>)
    \* no operator-named unary handler exists in this class
    ELSE Raised("TypeError", <<>>)

AIL_handle_BinaryOp(t, expr) ==
    LET handler_name == "_ail_handle_" \o expr.op IN
    IF handler_name \notin AILAttrs
    THEN Returned(None, <<Warning("Unsupported BinaryOp", expr.op)>>)
    ELSE CASE handler_name = "_ail_handle_Add" -> AIL_handle_Add(t, expr)
           [] handler_name = "_ail_handle_Sub" -> AIL_handle_Sub(t, expr)

AIL_expr(t, expr) ==
    LET handler == "_ail_handle_" \o expr.tag IN
    IF handler \in AILAttrs
    THEN CASE handler = "_ail_handle_Const" -> AIL_handle_Const(t, expr)
           [] handler = "_ail_handle_Tmp" -> AIL_handle_Tmp(t, expr)
           [] handler = "_ail_handle_Load" -> AIL_handle_Load(t, expr)
           [] handler = "_ail_handle_UnaryOp" -> AIL_handle_UnaryOp(t, expr)
           [] handler = "_ail_handle_BinaryOp" -> AIL_handle_BinaryOp(t, expr)
    ELSE Returned(None, <<Warning("Unsupported expression type", expr.tag)>>)

----------------------------------------------------------------------------
(* Statement handlers: what a handler gives is the temp table it leaves,   *)
(* whether it returned or raised, and the warnings it logged.              *)

StmtReturned(t, warnings) == [st |-> "return", exc |-> "", tmps |-> t, log |-> warnings]

StmtRaised(t, e, warnings) == [st |-> "raise", exc |-> e, tmps |-> t, log |-> warnings]

\* as _handle_WrTmp, but the assignment replaces the whole table
VEX_handle_WrTmp_fresh(t, stmt) ==
    LET data == VEX_expr(t, stmt.data) IN
    IF data.st = "raise" THEN StmtRaised(t, data.exc, data.log)
    ELSE IF data.val = None THEN StmtReturned(t, data.log)
    ELSE StmtReturned(DictSet(EmptyDict, stmt.tmp, data.val), data.log)

VEX_handle_WrTmp(t, stmt) ==
    LET data == VEX_expr(t, stmt.data) IN
    IF data.st = "raise" THEN StmtRaised(t, data.exc, data.log)
    ELSE IF data.val = None THEN StmtReturned(t, data.log)
    ELSE StmtReturned(DictSet(t, stmt.tmp, data.val), data.log)

VEX_handle_Put(t, stmt) == StmtRaised(t, "NotImplementedError", <<>>)

VEX_handle_Store(t, stmt) == StmtRaised(t, "NotImplementedError", <<>>)

\* as _handle_Stmt, but a statement type without a handler is an error
VEX_handle_Stmt_strict(t, stmt) ==
    LET handler == "_handle_" \o stmt.tag IN
    IF handler \in VEXAttrs
    THEN CASE handler = "_handle_WrTmp" -> VEX_handle_WrTmp(t, stmt)
           [] handler = "_handle_Put" -> VEX_handle_Put(t, stmt)
           [] handler = "_handle_Store" -> VEX_handle_Store(t, stmt)
    ELSE StmtRaised(t, "AttributeError", <<>>)

VEX_handle_Stmt(t, stmt) ==
    LET handler == "_handle_" \o stmt.tag IN
    IF handler \in VEXAttrs
    THEN CASE handler = "_handle_WrTmp" -> VEX_handle_WrTmp(t, stmt)
           [] handler = "_handle_Put" -> VEX_handle_Put(t, stmt)
           [] handler = "_handle_Store" -> VEX_handle_Store(t, stmt)
    ELSE StmtReturned(t, <<Warning("Unsupported statement type", stmt.tag)>>)

AIL_handle_Jump(t, stmt) == StmtRaised(t, "NotImplementedError", <<>>)

AIL_handle_Call(t, stmt) == StmtRaised(t, "NotImplementedError", <<>>)

AIL_handle_Stmt(t, stmt) ==
    LET handler == "_ail_handle_" \o stmt.tag IN
    IF handler \in AILAttrs
    THEN CASE handler = "_ail_handle_Jump" -> AIL_handle_Jump(t, stmt)
           [] handler = "_ail_handle_Call" -> AIL_handle_Call(t, stmt)
    ELSE StmtReturned(t, <<Warning("Unsupported statement type", stmt.tag)>>)

\* CodeLocation(self.block.addr, self.stmt_idx, ins_addr=self.ins_addr)
CodeLocation(block_addr, idx, addr) ==
    [block_addr |-> block_addr, stmt_idx |-> idx, ins_addr |-> addr]

_codeloc == CodeLocation(block.addr, stmt_idx, ins_addr)

----------------------------------------------------------------------------
(* Inputs: the IR nodes, blocks and states the engine is run on *)

InsAddrs == {4096, 4100}

Const(v) == [tag |-> "Const", con |-> [value |-> v]]

RdTmp(t) == [tag |-> "RdTmp", tmp |-> t]

Get == [tag |-> "Get"]

Load == [tag |-> "Load"]

UnaryOp(op) == [tag |-> "UnaryOp", op |-> op]

Binop(op, a0, a1) == [tag |-> "Binop", op |-> op, args |-> <<a0, a1>>]

\* an expression type the engine has no handler for
ITE == [tag |-> "ITE"]

IMark(addr, delta) == [tag |-> "IMark", addr |-> addr, delta |-> delta]

WrTmp(t, data) == [tag |-> "WrTmp", tmp |-> t, data |-> data]

Put == [tag |-> "Put"]

Store == [tag |-> "Store"]

\* a statement type the engine has no handler for
AbiHint == [tag |-> "AbiHint"]

AILStmt(tag, addr) == [tag |-> tag, ins_addr |-> addr]

SeqsUpTo(S, n) == UNION {[1..k -> S] : k \in 0..n}

VEXBlock(stmts) ==
    [addr |-> 4096,
     vex |-> [statements |-> stmts, tyenv |-> [tag |-> "IRTypeEnv", n |-> Len(stmts)]]]

AILBlock(stmts) == [addr |-> 4096, statements |-> stmts]

States == {[tag |-> "State", arch |-> [tag |-> "Arch", name |-> "AMD64"]]}

\* the blocks of Spec
VEXStmts ==
    {IMark(4096, 0), IMark(4096, 4), Put, AbiHint,
     WrTmp(0, Const(IntVal(5))),
     WrTmp(MaxTmp, Binop("Iop_Add32", RdTmp(0), Const(IntVal(3))))}

AILStmts ==
    {AILStmt("Jump", 4096), AILStmt("Call", 4100), AILStmt("Store", 4100),
     AILStmt("Assignment", 4096)}

VEXBlocks == {VEXBlock(ss) : ss \in SeqsUpTo(VEXStmts, MaxStmts)}

AILBlocks == {AILBlock(ss) : ss \in SeqsUpTo(AILStmts, MaxStmts)}

\* the blocks of TempSpec: temp assignments, re-assignments and reads
TempStmts ==
    {AbiHint,
     WrTmp(0, Const(IntVal(5))),
     WrTmp(0, RdTmp(MaxTmp)),
     WrTmp(MaxTmp, Binop("Iop_Add32", RdTmp(0), Const(IntVal(3)))),
     WrTmp(MaxTmp, Get)}

TempBlocks == {VEXBlock(ss) : ss \in SeqsUpTo(TempStmts, MaxStmts)}

\* the blocks of MarkSpec: instruction markers between other statements
MarkStmts == {IMark(4096, 0), IMark(4096, 4), WrTmp(0, Const(IntVal(5))), Put}

MarkBlocks == {VEXBlock(ss) : ss \in SeqsUpTo(MarkStmts, MaxMarkStmts)}

\* the blocks of ExprSpec: they fill the temp table the expressions read
ExprBlocksVEX ==
    {VEXBlock(<<>>),
     VEXBlock(<<WrTmp(0, Const(IntVal(5))), Store>>),
     VEXBlock(<<WrTmp(0, Const(Opaque)), WrTmp(MaxTmp, Const(IntVal(5)))>>)}

ExprBlocksAIL ==
    {AILBlock(<<>>), AILBlock(<<AILStmt("Assignment", 4096)>>)}

\* the expressions of ExprSpec, dialect A
VEXLeaves ==
    {Const(IntVal(5)), Const(Opaque), Get, Load, ITE,
     UnaryOp("Iop_Not32"), UnaryOp("Iop_32Uto64")}
    \cup {RdTmp(t) : t \in Tmps}

VEXBinops == {"Iop_Add32", "Iop_Sub64", "Iop_Mul32", "Const32"}

VEXLevel1 == {Binop(op, a0, a1) : op \in VEXBinops, a0 \in VEXLeaves, a1 \in VEXLeaves}

VEXUnknowns == {ITE, RdTmp(MaxTmp), Binop("Iop_Mul32", Const(IntVal(5)), Const(IntVal(5)))}

VEXLevel2 ==
    UNION {{Binop(op, x, u), Binop(op, u, x)} :
            op \in {"Iop_Add32", "Iop_Sub64"}, x \in VEXLeaves \cup VEXLevel1,
            u \in VEXUnknowns}

VEXExprs == VEXLeaves \cup VEXLevel1 \cup VEXLevel2

\* the expressions of ExprSpec, dialect B
AILConst(idx, v) == [tag |-> "Const", idx |-> idx, value |-> v]

AILTmp(idx, t) == [tag |-> "Tmp", idx |-> idx, tmp_idx |-> t]

AILLoad(idx) == [tag |-> "Load", idx |-> idx]

AILUnaryOp(idx, op) == [tag |-> "UnaryOp", idx |-> idx, op |-> op]

\* an expression type the engine has no handler for
AILRegister(idx) == [tag |-> "Register", idx |-> idx]

AILLeaves ==
    {AILConst(1, IntVal(5)), AILConst(2, IntVal(3)), AILTmp(3, 0), AILLoad(4),
     AILUnaryOp(5, "Not"), AILRegister(6)}

AILBinops == {"Add", "Sub", "Mul"}

AILLevel1 ==
    {BinaryOp(7, op, <<a0, a1>>, [ins_addr |-> 4100]) :
        op \in AILBinops, a0 \in AILLeaves, a1 \in AILLeaves}

AILLevel2 ==
    UNION {{BinaryOp(8, op, <<x, y>>, [ins_addr |-> 4096]),
            BinaryOp(8, op, <<y, x>>, [ins_addr |-> 4096])} :
            op \in AILBinops, x \in AILLeaves \cup AILLevel1, y \in AILLeaves}

AILExprs == AILLeaves \cup AILLevel1 \cup AILLevel2

----------------------------------------------------------------------------
(* The engine *)

\* SimEngineLight.__init__ / SimEngineLightVEX.__init__ / SimEngineLightAIL.__init__
Init ==
    /\ engine_type \in {"vex", "ail"}
    /\ state = None
    /\ arch = None
    /\ block = None
    /\ stmt_idx = None
    /\ ins_addr = None
    /\ tmps = None
    /\ tyenv = None
    /\ pc = "idle"
    /\ next = 0
    /\ outcome = "none"
    /\ log = <<>>
    /\ prev = None
    /\ evalRes = None

\* as process() on a SimEngineLightVEX, but a temp table that exists is kept
VEX_process_reuse(states, blocks) ==
    /\ engine_type = "vex"
    /\ pc = "idle"
    /\ \E st \in states, b \in blocks :
          /\ b # None
          /\ tmps' = IF tmps = None THEN EmptyDict ELSE tmps
          /\ block' = b
          /\ state' = st
          /\ arch' = st.arch
          /\ tyenv' = b.vex.tyenv
    /\ pc' = "running"
    /\ next' = 0
    /\ log' = <<>>
    /\ prev' = [tmps |-> tmps, outcome |-> outcome]
    /\ evalRes' = None
    /\ UNCHANGED <<engine_type, stmt_idx, ins_addr, outcome>>

\* process(state, block=b) on a SimEngineLightVEX, for a state and a block
\* (assert block is not None) of the given sets, up to the call of _process_Stmt
VEX_process(states, blocks) ==
    /\ engine_type = "vex"
    /\ pc = "idle"
    /\ \E st \in states, b \in blocks :
          /\ b # None
          /\ tmps' = EmptyDict
          /\ block' = b
          /\ state' = st
          /\ arch' = st.arch
          /\ tyenv' = b.vex.tyenv
    /\ pc' = "running"
    /\ next' = 0
    /\ log' = <<>>
    /\ prev' = [tmps |-> tmps, outcome |-> outcome]
    /\ evalRes' = None
    /\ UNCHANGED <<engine_type, stmt_idx, ins_addr, outcome>>

IMarkAddr_base_only(stmt) == stmt.addr

\* stmt.addr + stmt.delta of an instruction marker
IMarkAddr(stmt) == stmt.addr + stmt.delta

\* one iteration of the loop of SimEngineLightVEX._process_Stmt
VEX_process_Stmt ==
    /\ engine_type = "vex"
    /\ pc = "running"
    /\ next < Len(block.vex.statements)
    /\ LET stmt == block.vex.statements[next + 1]
           r == VEX_handle_Stmt(tmps, stmt)
       IN  /\ stmt_idx' = IntVal(next)
           /\ ins_addr' = IF stmt.tag = "IMark"
                          THEN IntVal(IMarkAddr(stmt))
                          ELSE ins_addr
           /\ tmps' = r.tmps
           /\ log' = log \o r.log
           /\ IF r.st = "raise"
              THEN pc' = "idle" /\ next' = 0 /\ outcome' = r.exc /\ prev' = None
              ELSE pc' = "running" /\ next' = next + 1 /\ UNCHANGED <<outcome, prev>>
    /\ UNCHANGED <<engine_type, state, arch, block, tyenv, evalRes>>

\* as the end of SimEngineLightVEX._process, but ins_addr is left as it is
VEX_process_return_stale ==
    /\ engine_type = "vex"
    /\ pc = "running"
    /\ next = Len(block.vex.statements)
    /\ stmt_idx' = None
    /\ pc' = "idle"
    /\ next' = 0
    /\ outcome' = "returned"
    /\ prev' = None
    /\ UNCHANGED <<engine_type, state, arch, block, tmps, tyenv, log, evalRes,
                   ins_addr>>

\* the loop is over: the two assignments that end SimEngineLightVEX._process
VEX_process_return ==
    /\ engine_type = "vex"
    /\ pc = "running"
    /\ next = Len(block.vex.statements)
    /\ stmt_idx' = None
    /\ ins_addr' = None
    /\ pc' = "idle"
    /\ next' = 0
    /\ outcome' = "returned"
    /\ prev' = None
    /\ UNCHANGED <<engine_type, state, arch, block, tmps, tyenv, log, evalRes>>

\* process(state, block=b) on a SimEngineLightAIL, for a state and a block of
\* the given sets, up to the call of _process_Stmt
AIL_process(states, blocks) ==
    /\ engine_type = "ail"
    /\ pc = "idle"
    /\ \E st \in states, b \in blocks :
          /\ tmps' = EmptyDict
          /\ block' = b
          /\ state' = st
          /\ arch' = st.arch
    /\ pc' = "running"
    /\ next' = 0
    /\ log' = <<>>
    /\ prev' = [tmps |-> tmps, outcome |-> outcome]
    /\ evalRes' = None
    /\ UNCHANGED <<engine_type, stmt_idx, ins_addr, tyenv, outcome>>

\* one iteration of the loop of SimEngineLightAIL._process_Stmt
AIL_process_Stmt ==
    /\ engine_type = "ail"
    /\ pc = "running"
    /\ next < Len(block.statements)
    /\ LET stmt == block.statements[next + 1]
           r == AIL_handle_Stmt(tmps, stmt)
       IN  /\ stmt_idx' = IntVal(next)
           /\ ins_addr' = IntVal(stmt.ins_addr)
           /\ tmps' = r.tmps
           /\ log' = log \o r.log
           /\ IF r.st = "raise"
              THEN pc' = "idle" /\ next' = 0 /\ outcome' = r.exc /\ prev' = None
              ELSE pc' = "running" /\ next' = next + 1 /\ UNCHANGED <<outcome, prev>>
    /\ UNCHANGED <<engine_type, state, arch, block, tyenv, evalRes>>

\* the loop is over: the two assignments that end SimEngineLightAIL._process
AIL_process_return ==
    /\ engine_type = "ail"
    /\ pc = "running"
    /\ next = Len(block.statements)
    /\ stmt_idx' = None
    /\ ins_addr' = None
    /\ pc' = "idle"
    /\ next' = 0
    /\ outcome' = "returned"
    /\ prev' = None
    /\ UNCHANGED <<engine_type, state, arch, block, tmps, tyenv, log, evalRes>>

\* a handler evaluates an expression in the context of the running call:
\* self._expr(expr) on a SimEngineLightVEX. _expr writes no field of the
\* engine, so the history keeps one evaluation per process() call.
VEX_expr_call ==
    /\ engine_type = "vex"
    /\ pc = "running"
    /\ evalRes = None
    /\ \E expr \in VEXExprs :
          evalRes' = [expr |-> expr, tmps |-> tmps, res |-> VEX_expr(tmps, expr)]
    /\ UNCHANGED <<engine_type, state, arch, block, stmt_idx, ins_addr, tmps,
                   tyenv, pc, next, outcome, log, prev>>

\* self._expr(expr) on a SimEngineLightAIL
AIL_expr_call ==
    /\ engine_type = "ail"
    /\ pc = "running"
    /\ evalRes = None
    /\ \E expr \in AILExprs :
          evalRes' = [expr |-> expr, tmps |-> tmps, res |-> AIL_expr(tmps, expr)]
    /\ UNCHANGED <<engine_type, state, arch, block, stmt_idx, ins_addr, tmps,
                   tyenv, pc, next, outcome, log, prev>>

Next ==
    \/ VEX_process(States, VEXBlocks)
    \/ VEX_process_Stmt
    \/ VEX_process_return
    \/ AIL_process(States, AILBlocks)
    \/ AIL_process_Stmt
    \/ AIL_process_return

Spec == Init /\ [][Next]_vars

TempNext ==
    \/ VEX_process(States, TempBlocks)
    \/ VEX_process_Stmt
    \/ VEX_process_return

TempSpec == Init /\ [][TempNext]_vars

MarkNext ==
    \/ VEX_process(States, MarkBlocks)
    \/ VEX_process_Stmt
    \/ VEX_process_return

MarkSpec == Init /\ [][MarkNext]_vars

ExprNext ==
    \/ VEX_process(States, ExprBlocksVEX)
    \/ VEX_process_Stmt
    \/ VEX_process_return
    \/ VEX_expr_call
    \/ AIL_process(States, ExprBlocksAIL)
    \/ AIL_process_Stmt
    \/ AIL_process_return
    \/ AIL_expr_call

ExprSpec == Init /\ [][ExprNext]_vars

----------------------------------------------------------------------------
(* Vocabulary of the properties *)

\* the statements of a block of the engine's dialect
Stmts(b) == IF engine_type = "vex" THEN b.vex.statements ELSE b.statements

\* the loop of _process_Stmt is about to process a statement
AtStatement == pc = "running" /\ next < Len(Stmts(block))

CurStmt == Stmts(block)[next + 1]

\* the statement dispatch finds a handler for the statement's type
HasHandler(stmt) ==
    IF engine_type = "vex"
    THEN ("_handle_" \o stmt.tag) \in VEXAttrs
    ELSE ("_ail_handle_" \o stmt.tag) \in AILAttrs

\* what reading temp id gives in temp table t
ReadTmp(t, id) ==
    IF engine_type = "vex"
    THEN VEX_handle_RdTmp(t, RdTmp(id))
    ELSE AIL_handle_Tmp(t, AILTmp(0, id))

\* the temps the first n statements of a block assign
AssignedBy(stmts, n) == {stmts[i].tmp : i \in {j \in 1..n : stmts[j].tag = "WrTmp"}}

\* the positions up to n that hold an instruction marker
MarkersUpTo(stmts, n) == {j \in 1..n : stmts[j].tag = "IMark"}

LastMarker(stmts, n) ==
    CHOOSE j \in MarkersUpTo(stmts, n) : \A k \in MarkersUpTo(stmts, n) : k <= j

AllCleared ==
    /\ block = None /\ state = None /\ arch = None /\ tmps = None
    /\ tyenv = None /\ stmt_idx = None /\ ins_addr = None

IsAddSub(op) == StartsWith(op, "Iop_Add") \/ StartsWith(op, "Iop_Sub")

----------------------------------------------------------------------------
(* C1 *)

----------------------------------------------------------------------------
(* C2 *)

\* C2: when a statement handler aborts process() with the not-implemented
\* error, the statement index, the instruction address and the other context
\* fields are cleared at the moment the call exits.
C2_ClearedOnError ==
    (pc = "idle" /\ outcome = "NotImplementedError") => AllCleared

----------------------------------------------------------------------------
(* C3 *)

\* C3: a call of process() starts with an empty temp table whatever the
\* previous call left: while a block is processed, a temp that no statement
\* processed so far in this block assigns reads as unknown.
C3_FreshTempTable ==
    pc = "running" =>
        \A t \in Tmps :
            t \notin AssignedBy(Stmts(block), next) =>
                ReadTmp(tmps, t) = Returned(None, <<>>)

\* the previous call assigned temp 0 and ended with an error; the current
\* call is past its first statement and temp 0 is unknown
C3_Witness ==
    /\ pc = "running"
    /\ next >= 1
    /\ prev # None
    /\ prev.outcome = "NotImplementedError"
    /\ prev.tmps # None
    /\ 0 \in DictKeys(prev.tmps)
    /\ ReadTmp(tmps, 0).val = None

----------------------------------------------------------------------------
(* C4 *)

\* C4: in either dialect a statement whose type has no handler does not make
\* process() raise: it is passed over, the temp table is as before, one
\* warning is logged and the loop goes on with the next statement.
C4_UnsupportedSkipped ==
    [][(AtStatement /\ ~HasHandler(CurStmt)) =>
          /\ pc' = "running"
          /\ next' = next + 1
          /\ outcome' = outcome
          /\ tmps' = tmps
          /\ log' = Append(log, Warning("Unsupported statement type", CurStmt.tag))
      ]_vars

\* a block with an unsupported statement between two temp assignments has
\* returned, and both assignments took effect
C4_Witness ==
    /\ engine_type = "vex"
    /\ pc = "idle"
    /\ outcome = "returned"
    /\ block # None
    /\ Len(block.vex.statements) = 3
    /\ block.vex.statements[1].tag = "WrTmp"
    /\ block.vex.statements[2] = AbiHint
    /\ block.vex.statements[3].tag = "WrTmp"
    /\ tmps = Dict({<<0, IntVal(5)>>, <<MaxTmp, IntVal(8)>>})
    /\ log = <<Warning("Unsupported statement type", "AbiHint")>>

----------------------------------------------------------------------------
(* C5 *)

\* C5: evaluating a dialect-B Add or Sub node never gives unknown: when both
\* operands evaluate to numbers it gives their sum or difference, otherwise a
\* BinaryOp node with the same operator, the tags of the original node, and in
\* each slot the operand's value when known, the original operand when not.
C5_FoldOrPreserve ==
    (/\ evalRes # None
     /\ engine_type = "ail"
     /\ evalRes.expr.tag = "BinaryOp"
     /\ evalRes.expr.op \in {"Add", "Sub"}
     /\ evalRes.res.st = "return") =>
        LET e == evalRes.expr
            r0 == AIL_expr(evalRes.tmps, e.operands[1])
            r1 == AIL_expr(evalRes.tmps, e.operands[2])
            v == evalRes.res.val
        IN  /\ v # None
            /\ IF r0.val.tag = "int" /\ r1.val.tag = "int"
               THEN v = IntVal(IF e.op = "Add"
                               THEN r0.val.value + r1.val.value
                               ELSE r0.val.value - r1.val.value)
               ELSE /\ v.tag = "BinaryOp"
                    /\ v.op = e.op
                    /\ v.operands =
                          <<IF r0.val = None THEN e.operands[1] ELSE r0.val,
                            IF r1.val = None THEN e.operands[2] ELSE r1.val>>
                    /\ v.tags = e.tags

\* Add(Add(5, 3), Tmp 0) with temp 0 unknown gave the node Add(8, Tmp 0)
C5_Witness ==
    /\ evalRes # None
    /\ engine_type = "ail"
    /\ evalRes.expr =
          BinaryOp(8, "Add",
                   <<BinaryOp(7, "Add", <<AILConst(1, IntVal(5)), AILConst(2, IntVal(3))>>,
                              [ins_addr |-> 4100]),
                     AILTmp(3, 0)>>,
                   [ins_addr |-> 4096])
    /\ evalRes.res.st = "return"
    /\ evalRes.res.val =
          BinaryOp(8, "Add", <<IntVal(8), AILTmp(3, 0)>>, [ins_addr |-> 4096])

----------------------------------------------------------------------------
(* C6 *)

\* C6, as stated: in dialect A, Add or Sub with an operand that evaluates to
\* unknown gives unknown, whatever the other operand is.
C6_UnknownWhateverOther ==
    (/\ evalRes # None
     /\ engine_type = "vex"
     /\ evalRes.expr.tag = "Binop"
     /\ IsAddSub(evalRes.expr.op)) =>
        LET e == evalRes.expr
            r0 == VEX_expr(evalRes.tmps, e.args[1])
            r1 == VEX_expr(evalRes.tmps, e.args[2])
        IN  ((r0.st = "return" /\ r0.val = None) \/ (r1.st = "return" /\ r1.val = None))
                => (evalRes.res.st = "return" /\ evalRes.res.val = None)

\* C6, amended: Add(U, X) gives unknown for every X, which is not evaluated;
\* Add(X, U) gives unknown for every X whose evaluation returns, and an
\* exception raised by the evaluation of X leaves the Add as it is; the same
\* for Sub; two known operands that cannot be added give unknown, no error.
C6_UnknownPropagates ==
    (/\ evalRes # None
     /\ engine_type = "vex"
     /\ evalRes.expr.tag = "Binop"
     /\ IsAddSub(evalRes.expr.op)) =>
        LET e == evalRes.expr
            r0 == VEX_expr(evalRes.tmps, e.args[1])
            r1 == VEX_expr(evalRes.tmps, e.args[2])
            res == evalRes.res
        IN  /\ (r0.st = "return" /\ r0.val = None) =>
                   res = Returned(None, r0.log)
            /\ r0.st = "raise" => res = r0
            /\ (r0.st = "return" /\ r0.val # None /\ r1.st = "return" /\ r1.val = None) =>
                   (res.st = "return" /\ res.val = None)
            /\ (/\ r0.st = "return" /\ r0.val # None
                /\ r1.st = "return" /\ r1.val # None
                /\ ~(r0.val.tag = "int" /\ r1.val.tag = "int")) =>
                   (res.st = "return" /\ res.val = None)

\* Add(Sub(5, RdTmp 0), ITE) with temp 0 = 5: the first operand is known (0),
\* the second is an unsupported expression, the result is unknown
C6_Witness ==
    /\ evalRes # None
    /\ engine_type = "vex"
    /\ evalRes.expr = Binop("Iop_Add32", Binop("Iop_Sub64", Const(IntVal(5)), RdTmp(0)), ITE)
    /\ DictKeys(evalRes.tmps) = {0}
    /\ VEX_expr(evalRes.tmps, evalRes.expr.args[1]).val = IntVal(0)
    /\ evalRes.res.st = "return"
    /\ evalRes.res.val = None

----------------------------------------------------------------------------
(* C7 *)

\* C7: in dialect A, a temp assignment that stores the value of its expression
\* makes a read of that temp give exactly that value; a statement that does
\* not assign the temp leaves what a read of it gives; a read never raises,
\* and a temp no processed statement of the block assigns reads as unknown.
C7_TempRoundTrip ==
    /\ [][(engine_type = "vex" /\ AtStatement) =>
            \A t \in Tmps :
               /\ (CurStmt.tag = "WrTmp" /\ CurStmt.tmp = t) =>
                     LET data == VEX_expr(tmps, CurStmt.data) IN
                     (data.st = "return" /\ data.val # None) =>
                        VEX_handle_RdTmp(tmps', RdTmp(t)) = Returned(data.val, <<>>)
               /\ ~(CurStmt.tag = "WrTmp" /\ CurStmt.tmp = t) =>
                     VEX_handle_RdTmp(tmps', RdTmp(t)) = VEX_handle_RdTmp(tmps, RdTmp(t))
         ]_vars
    /\ [](engine_type = "vex" /\ pc = "running" =>
            \A t \in Tmps :
               /\ VEX_handle_RdTmp(tmps, RdTmp(t)).st = "return"
               /\ t \notin AssignedBy(block.vex.statements, next) =>
                     VEX_handle_RdTmp(tmps, RdTmp(t)).val = None)

\* temp 0 was assigned 5, an unsupported statement followed, and the last
\* statement read temp 0 and stored 5 + 3
C7_Witness ==
    /\ engine_type = "vex"
    /\ pc = "running"
    /\ block.vex.statements =
          <<WrTmp(0, Const(IntVal(5))), AbiHint,
            WrTmp(MaxTmp, Binop("Iop_Add32", RdTmp(0), Const(IntVal(3))))>>
    /\ next = 3
    /\ VEX_handle_RdTmp(tmps, RdTmp(0)).val = IntVal(5)
    /\ VEX_handle_RdTmp(tmps, RdTmp(MaxTmp)).val = IntVal(8)

----------------------------------------------------------------------------
(* C8 *)

\* C8: in dialect A, while statement i of a block is processed the code
\* location has statement index i and, when the block has an instruction
\* marker at or before i, the addr + delta of the last such marker as its
\* instruction address; a statement that is no marker leaves the address.
C8_MarkerReconstruction ==
    [][(engine_type = "vex" /\ AtStatement) =>
          LET stmts == block.vex.statements
              i == next + 1
          IN  /\ _codeloc'.block_addr = block.addr
              /\ _codeloc'.stmt_idx = IntVal(next)
              /\ MarkersUpTo(stmts, i) # {} =>
                    _codeloc'.ins_addr =
                       IntVal(stmts[LastMarker(stmts, i)].addr
                              + stmts[LastMarker(stmts, i)].delta)
              /\ stmts[i].tag # "IMark" => _codeloc'.ins_addr = ins_addr
      ]_vars

\* [Marker(0x1000, 0), S1, Marker(0x1000, 4), S2] while S2 is processed
C8_Witness ==
    /\ engine_type = "vex"
    /\ block # None
    /\ Len(block.vex.statements) = 4
    /\ block.vex.statements[1] = IMark(4096, 0)
    /\ block.vex.statements[2].tag = "WrTmp"
    /\ block.vex.statements[3] = IMark(4096, 4)
    /\ block.vex.statements[4].tag # "IMark"
    /\ _codeloc = CodeLocation(4096, IntVal(3), IntVal(4100))

----------------------------------------------------------------------------
(* C9 *)

\* the statements that stand for a capability the analysis has to supply
CapabilityStmts ==
    IF engine_type = "vex" THEN {"Put", "Store"} ELSE {"Store", "Jump", "Call"}

\* C9: on an engine whose capabilities are left unimplemented, a statement
\* that is a capability operation ends process() with the not-implemented
\* error and is not logged as unsupported and passed over.
C9_CapabilityIsFatal ==
    [][(AtStatement /\ CurStmt.tag \in CapabilityStmts) =>
          /\ pc' = "idle"
          /\ outcome' = "NotImplementedError"
          /\ log' = log
      ]_vars

----------------------------------------------------------------------------
(* C10 *)

\* the operator of a UnaryOp or BinaryOp node has no handler
NoOperatorHandler(e) ==
    IF engine_type = "vex"
    THEN \/ e.tag = "UnaryOp" /\ e.op \in DOMAIN vex_operations
         \/ e.tag = "Binop" /\ ~IsAddSub(e.op) /\ ~StartsWith(e.op, "Const")
    ELSE /\ e.tag \in {"UnaryOp", "BinaryOp"}
         /\ ("_ail_handle_" \o e.op) \notin AILAttrs

\* C10: in both dialects, evaluating a UnaryOp or BinaryOp whose operator has
\* no handler gives unknown without raising and logs exactly one
\* unsupported-operator warning for the node.
C10_UnsupportedOperatorLogged ==
    (evalRes # None /\ NoOperatorHandler(evalRes.expr)) =>
        /\ evalRes.res.st = "return"
        /\ evalRes.res.val = None
        /\ Len(evalRes.res.log) = 1
        /\ evalRes.res.log[1].kind \in {"Unsupported UnaryOp", "Unsupported BinaryOp"}
        /\ evalRes.res.log[1].name = evalRes.expr.op

====
